---- MODULE Spec2Model ----
(***************************************************************************)
(* Model of the dictionary command line tool (src/cli.js): the encoding    *)
(* detection heuristic, the byte <-> text conversions the commands rely    *)
(* on, and the three commands add, delete and sort, step by step.          *)
(*                                                                         *)
(* Bytes are naturals 0..255, text is a sequence of Unicode code points.   *)
(***************************************************************************)
EXTENDS Naturals, Sequences, FiniteSets

VARIABLES cmd,           \* "add" | "delete" | "sort" | "detect"
          pc,            \* position inside the command
          dictFile,      \* content of the dictionary file (bytes) or Missing
          wordsFile,     \* content of the secondary file (bytes) or Missing
          dictFile0,     \* content of the dictionary when the command started
          dictEncoding,  \* const dictEncoding / encoding
          otherEncoding, \* const newWordsEncoding / deleteEncoding
          dictLines,     \* const dictLines / lines
          otherLines,    \* const newLines / deleteLines
          result,        \* sortedWords / result
          count,         \* addedCount / deletedCount / duplicatesRemoved
          writeCalls,    \* calls of writeFileLines on the dictionary path
          writeEnc,      \* encoding argument of the last writeFileLines call
          exitCode,      \* process exit code, NoExit while running
          redetected     \* label of a detectEncoding run after the command

vars == <<cmd, pc, dictFile, wordsFile, dictFile0, dictEncoding, otherEncoding,
          dictLines, otherLines, result, count, writeCalls, writeEnc,
          exitCode, redetected>>

(***************************************************************************)
(* Bounds of the model.                                                    *)
(***************************************************************************)
MaxBuf == 3          \* bytes of a buffer handed to detectEncoding alone
MaxDictLines == 2    \* raw lines of a dictionary file
MaxWordLines == 1    \* raw lines of a secondary file
MaxPrimary == 3      \* lines of a primary collection of the line-set engine
MaxSecondary == 2    \* lines of a secondary collection of the line-set engine

(***************************************************************************)
(* Labels and special values.                                              *)
(***************************************************************************)
UTF8 == "utf-8"
WIN1251 == "windows-1251"
UNKNOWN == "unknown"
Labels == {UTF8, WIN1251, UNKNOWN}
Missing == [readable |-> FALSE, bytes |-> <<>>]   \* a path that cannot be read
File(b) == [readable |-> TRUE, bytes |-> b]      \* a readable file of bytes b
None == "none"           \* a constant not assigned yet
NoExit == 255            \* the process has not exited

ReplacementChar == 65533 \* U+FFFD
ByteOrderMark == 65279   \* U+FEFF
LF == 10
QuestionMark == 63       \* iconv-lite's default character for single-byte codecs

(***************************************************************************)
(* Generic helpers.                                                        *)
(***************************************************************************)
SeqsUpTo(S, n) == UNION {[1..k -> S] : k \in 0..n}

Range(s) == {s[i] : i \in 1..Len(s)}

Contains(s, x) == \E i \in 1..Len(s) : s[i] = x

RECURSIVE Flatten(_)
Flatten(ss) == IF ss = <<>> THEN <<>> ELSE Head(ss) \o Flatten(Tail(ss))

(***************************************************************************)
(* Buffer.toString('utf8') : bytes -> code points.  An ill-formed sequence *)
(* yields U+FFFD and decoding resumes at the next byte.                    *)
(***************************************************************************)
RECURSIVE Utf8From(_, _)
Utf8From(b, i) ==
  IF i > Len(b) THEN <<>>
  ELSE LET b0 == b[i]
           cont(k) == i + k <= Len(b) /\ b[i + k] \in 128..191
           low(k) == b[i + k] - 128
       IN IF b0 < 128 THEN <<b0>> \o Utf8From(b, i + 1)
          ELSE IF b0 \in 194..223 /\ cont(1)
            THEN <<(b0 - 192) * 64 + low(1)>> \o Utf8From(b, i + 2)
          ELSE IF /\ b0 \in 224..239 /\ cont(1) /\ cont(2)
                  /\ (b0 = 224 => b[i + 1] >= 160)
                  /\ (b0 = 237 => b[i + 1] <= 159)
            THEN <<(b0 - 224) * 4096 + low(1) * 64 + low(2)>> \o Utf8From(b, i + 3)
          ELSE IF /\ b0 \in 240..244 /\ cont(1) /\ cont(2) /\ cont(3)
                  /\ (b0 = 240 => b[i + 1] >= 144)
                  /\ (b0 = 244 => b[i + 1] <= 143)
            THEN <<(b0 - 240) * 262144 + low(1) * 4096 + low(2) * 64 + low(3)>>
                 \o Utf8From(b, i + 4)
          ELSE <<ReplacementChar>> \o Utf8From(b, i + 1)

Utf8ToString(b) == Utf8From(b, 1)

(***************************************************************************)
(* The Windows-1251 code page, bytes 0x80..0xBF (0x98 is undefined and     *)
(* decodes to U+FFFD); 0x00..0x7F is ASCII and 0xC0..0xFF is U+0410..044F. *)
(***************************************************************************)
Win1251High ==
  << 1026, 1027, 8218, 1107, 8222, 8230, 8224, 8225,
     8364, 8240, 1033, 8249, 1034, 1036, 1035, 1039,
     1106, 8216, 8217, 8220, 8221, 8226, 8211, 8212,
     65533, 8482, 1113, 8250, 1114, 1116, 1115, 1119,
     160, 1038, 1118, 1032, 164, 1168, 166, 167,
     1025, 169, 1028, 171, 172, 173, 174, 1031,
     176, 177, 1030, 1110, 1169, 181, 182, 183,
     1105, 8470, 1108, 187, 1112, 1029, 1109, 1111 >>

Win1251Char(b) ==
  IF b < 128 THEN b
  ELSE IF b >= 192 THEN 1040 + (b - 192)
  ELSE Win1251High[b - 127]

\* iconv.decode(buffer, 'windows-1251')
Win1251Decode(b) == [i \in 1..Len(b) |-> Win1251Char(b[i])]

(***************************************************************************)
(* The two tests of detectEncoding: the regular expression for the range   *)
(* U+0410..U+044F and the one for U+FFFD.                                  *)
(***************************************************************************)
HasCyrillic(s) == \E i \in 1..Len(s) : s[i] \in 1040..1103

HasReplacement(s) == Contains(s, ReplacementChar)

\* readFile rejects for a path that cannot be read: the outer catch
detectEncoding(file) ==
  IF ~file.readable THEN UNKNOWN
  ELSE IF HasCyrillic(Utf8ToString(file.bytes)) /\ ~HasReplacement(Utf8ToString(file.bytes))
    THEN UTF8
  ELSE IF HasCyrillic(Win1251Decode(file.bytes)) /\ ~HasReplacement(Win1251Decode(file.bytes))
    THEN WIN1251
  ELSE UNKNOWN

(***************************************************************************)
(* iconv-lite streams.  getCodec throws "Encoding not recognized" for a    *)
(* name that is no encoding, 'unknown' among them.  The UTF-8 decoder      *)
(* strips a leading byte order mark; the encoders add none.                *)
(***************************************************************************)
\* a codec lookup that accepts every label
EncodingRecognizedAny(enc) == enc \in Labels

EncodingRecognized(enc) == enc \in {UTF8, WIN1251}

StripBOM(s) == IF s # <<>> /\ Head(s) = ByteOrderMark THEN Tail(s) ELSE s

decodeStream(b, enc) ==
  IF enc = UTF8 THEN StripBOM(Utf8ToString(b)) ELSE Win1251Decode(b)

Utf8EncodeChar(c) ==
  IF c < 128 THEN <<c>>
  ELSE IF c < 2048 THEN <<192 + (c \div 64), 128 + (c % 64)>>
  ELSE IF c < 65536
    THEN <<224 + (c \div 4096), 128 + ((c \div 64) % 64), 128 + (c % 64)>>
  ELSE <<240 + (c \div 262144), 128 + ((c \div 4096) % 64),
         128 + ((c \div 64) % 64), 128 + (c % 64)>>

Win1251EncodeChar(c) ==
  IF c < 128 THEN <<c>>
  ELSE IF c \in 1040..1103 THEN <<192 + (c - 1040)>>
  ELSE IF c # ReplacementChar /\ \E k \in 1..64 : Win1251High[k] = c
    THEN <<127 + (CHOOSE k \in 1..64 : Win1251High[k] = c)>>
  ELSE <<QuestionMark>>

encodeStream(s, enc) ==
  Flatten([i \in 1..Len(s) |->
             IF enc = UTF8 THEN Utf8EncodeChar(s[i]) ELSE Win1251EncodeChar(s[i])])

(***************************************************************************)
(* readline and String.prototype.trim.                                     *)
(***************************************************************************)
IsLineEnd(c) == c \in {10, 13}

IsWhiteSpace(c) ==
  c \in {9, 10, 11, 12, 13, 32, 160, 5760, 8232, 8233, 8239, 8287, 12288, 65279}
        \cup (8192..8202)

RECURSIVE SplitFrom(_, _, _)
SplitFrom(s, i, cur) ==
  IF i > Len(s) THEN (IF cur = <<>> THEN <<>> ELSE <<cur>>)
  ELSE IF IsLineEnd(s[i]) THEN <<cur>> \o SplitFrom(s, i + 1, <<>>)
  ELSE SplitFrom(s, i + 1, Append(cur, s[i]))

SplitLines(s) == SplitFrom(s, 1, <<>>)

\* line.trim() is a non-empty string
NonBlank(line) == \E i \in 1..Len(line) : ~IsWhiteSpace(line[i])

readFileLines(file, enc) == SelectSeq(SplitLines(decodeStream(file, enc)), NonBlank)

\* the bytes writeFileLines leaves in the file
writeFileLines(lines, enc) ==
  Flatten([i \in 1..Len(lines) |-> encodeStream(Append(lines[i], LF), enc)])

(***************************************************************************)
(* a.localeCompare(b, 'ru'): the collation of the Russian locale at its    *)
(* default (tertiary) strength, for the letters the model's words use.     *)
(* Control and format characters (the soft hyphen U+00AD among them) carry *)
(* no weight at any level; the letters of the Cyrillic script sort before  *)
(* the Latin ones; U+0401/U+0451 differ from U+0415/U+0435 by an accent,   *)
(* upper case from lower case at the third level.                          *)
(***************************************************************************)
IsIgnorable(c) == c \in (0..8) \cup (14..31) \cup (127..159) \cup {173}

IsUpper(c) == c \in (65..90) \cup (1040..1071) \cup {1025}

ToLower(c) ==
  IF c \in (65..90) \cup (1040..1071) THEN c + 32
  ELSE IF c = 1025 THEN 1105
  ELSE c

\* punctuation and symbols sort before every letter, Cyrillic letters before
\* Latin ones; within a script the order of the alphabet
PrimaryWeight(c) ==
  LET l == ToLower(c)
      base == IF l = 1105 THEN 1077 ELSE l
  IN IF base \in 1024..1327 THEN 100000 + base
     ELSE IF base \in 97..122 THEN 200000 + base
     ELSE base

SecondaryWeight(c) == IF ToLower(c) = 1105 THEN 1 ELSE 0

TertiaryWeight(c) == IF IsUpper(c) THEN 1 ELSE 0

Weighted(s) == SelectSeq(s, LAMBDA c : ~IsIgnorable(c))

RECURSIVE LexCompare(_, _)
LexCompare(x, y) ==
  IF x = <<>> /\ y = <<>> THEN 0
  ELSE IF x = <<>> THEN 0 - 1
  ELSE IF y = <<>> THEN 1
  ELSE IF Head(x) < Head(y) THEN 0 - 1
  ELSE IF Head(x) > Head(y) THEN 1
  ELSE LexCompare(Tail(x), Tail(y))

PrimaryLevel(s) == LET w == Weighted(s) IN [i \in 1..Len(w) |-> PrimaryWeight(w[i])]

SecondaryLevel(s) == LET w == Weighted(s) IN [i \in 1..Len(w) |-> SecondaryWeight(w[i])]

TertiaryLevel(s) == LET w == Weighted(s) IN [i \in 1..Len(w) |-> TertiaryWeight(w[i])]

localeCompare(a, b) ==
  LET p == LexCompare(PrimaryLevel(a), PrimaryLevel(b))
      s == LexCompare(SecondaryLevel(a), SecondaryLevel(b))
      t == LexCompare(TertiaryLevel(a), TertiaryLevel(b))
  IN IF p # 0 THEN p ELSE IF s # 0 THEN s ELSE t

(***************************************************************************)
(* Array.prototype.sort with that comparator: a stable sort.               *)
(***************************************************************************)
RECURSIVE InsertStable(_, _)
InsertStable(sorted, x) ==
  IF sorted = <<>> THEN <<x>>
  ELSE IF localeCompare(Head(sorted), x) > 0 THEN <<x>> \o sorted
  ELSE <<Head(sorted)>> \o InsertStable(Tail(sorted), x)

RECURSIVE SortFrom(_, _)
SortFrom(done, rest) ==
  IF rest = <<>> THEN done ELSE SortFrom(InsertStable(done, Head(rest)), Tail(rest))

sortRu(words) == SortFrom(<<>>, words)

(***************************************************************************)
(* new Set(lines) and Array.from(set): the distinct lines, in the order of *)
(* their first occurrence.                                                 *)
(***************************************************************************)
RECURSIVE UniqueFrom(_, _)
UniqueFrom(seen, rest) ==
  IF rest = <<>> THEN seen
  ELSE IF Contains(seen, Head(rest)) THEN UniqueFrom(seen, Tail(rest))
  ELSE UniqueFrom(Append(seen, Head(rest)), Tail(rest))

NewSet(lines) == UniqueFrom(<<>>, lines)

(***************************************************************************)
(* The three computations of the line-set engine.                          *)
(***************************************************************************)
\* a loop that counts every line of newLines
RECURSIVE AddLoopCountAll(_, _, _)
AddLoopCountAll(wordSet, newLines, addedCount) ==
  IF newLines = <<>> THEN [wordSet |-> wordSet, addedCount |-> addedCount]
  ELSE IF Contains(wordSet, Head(newLines))
    THEN AddLoopCountAll(wordSet, Tail(newLines), addedCount + 1)
  ELSE AddLoopCountAll(Append(wordSet, Head(newLines)), Tail(newLines), addedCount + 1)

\* the loop of addWords: wordSet and addedCount after the words of newLines
RECURSIVE AddLoop(_, _, _)
AddLoop(wordSet, newLines, addedCount) ==
  IF newLines = <<>> THEN [wordSet |-> wordSet, addedCount |-> addedCount]
  ELSE IF Contains(wordSet, Head(newLines))
    THEN AddLoop(wordSet, Tail(newLines), addedCount)
  ELSE AddLoop(Append(wordSet, Head(newLines)), Tail(newLines), addedCount + 1)

\* a merge without the final sort
MergeUnsorted(lines, newLines) ==
  LET after == AddLoop(NewSet(lines), newLines, 0)
  IN [output |-> after.wordSet, count |-> after.addedCount]

\* addWords, lines 100-114
Merge(lines, newLines) ==
  LET after == AddLoop(NewSet(lines), newLines, 0)
  IN [output |-> sortRu(after.wordSet), count |-> after.addedCount]

\* a subtraction that also drops repeated lines
SubtractUnique(lines, deleteLines) ==
  LET kept == NewSet(SelectSeq(lines, LAMBDA w : ~Contains(deleteLines, w)))
  IN [output |-> kept, count |-> Len(lines) - Len(kept)]

\* deleteWords, lines 149-153
Subtract(lines, deleteLines) ==
  LET kept == SelectSeq(lines, LAMBDA w : ~Contains(deleteLines, w))
  IN [output |-> kept, count |-> Len(lines) - Len(kept)]

\* a normalization without the set
NormalizeKeepDuplicates(lines) ==
  LET sorted == sortRu(lines)
  IN [output |-> sorted, count |-> Len(lines) - Len(sorted)]

\* sortDictionary, lines 184-192
Normalize(lines) ==
  LET sorted == sortRu(NewSet(lines))
  IN [output |-> sorted, count |-> Len(lines) - Len(sorted)]

(***************************************************************************)
(* The inputs.  A file is a sequence of raw lines, each followed by a line *)
(* feed; the raw lines are drawn from byte strings that read differently   *)
(* in the two encodings.                                                   *)
(***************************************************************************)
RawLines ==
  { <<208, 184>>,    \* D0 B8: U+0438 in UTF-8, U+0420 U+0451 in Windows-1251
    <<232>>,         \* E8: U+0438 in Windows-1251, ill-formed UTF-8
    <<209, 145>>,    \* D1 91: U+0451 in UTF-8, U+0421 U+2018 in Windows-1251
    <<97>>,          \* a Latin letter
    <<160>>,         \* A0: a no-break space in Windows-1251, ill-formed UTF-8
    <<>> }           \* an empty line

FileOfLines(ls) == File(Flatten([i \in 1..Len(ls) |-> Append(ls[i], LF)]))

DictFiles == {FileOfLines(ls) : ls \in SeqsUpTo(RawLines, MaxDictLines)} \cup {Missing}

WordFiles == {FileOfLines(ls) : ls \in SeqsUpTo(RawLines, MaxWordLines)} \cup {Missing}

\* buffers for detectEncoding alone: every byte string over these bytes
BufferBytes == {10, 97, 145, 152, 160, 168, 184, 208, 209, 232}

Buffers == {File(b) : b \in SeqsUpTo(BufferBytes, MaxBuf)} \cup {Missing}

\* decoded lines for the line-set engine alone
Words ==
  { <<1072>>,        \* U+0430
    <<1072, 173>>,   \* U+0430 and a soft hyphen
    <<1041>>,        \* U+0411, upper case
    <<1105>> }       \* U+0451

Commands == {"add", "delete", "sort"}

(***************************************************************************)
(* The state after main has dispatched on the command.                     *)
(***************************************************************************)
Blank ==
  /\ dictEncoding = None
  /\ otherEncoding = None
  /\ dictLines = <<>>
  /\ otherLines = <<>>
  /\ result = <<>>
  /\ count = 0
  /\ writeCalls = 0
  /\ writeEnc = None
  /\ exitCode = NoExit
  /\ redetected = None

Init ==
  /\ cmd \in Commands
  /\ pc = "detectDict"
  /\ dictFile \in DictFiles
  /\ wordsFile \in (IF cmd = "sort" THEN {Missing} ELSE WordFiles)
  /\ dictFile0 = dictFile
  /\ Blank

(***************************************************************************)
(* process.exit(1) of the catch block of a command.                        *)
(***************************************************************************)
Fail ==
  /\ pc' = "failed"
  /\ exitCode' = 1

\* const dictEncoding = await detectEncoding(dictPath)
DetectDict ==
  /\ pc = "detectDict"
  /\ dictEncoding' = detectEncoding(dictFile)
  /\ pc' = IF cmd = "sort" THEN "readDict" ELSE "detectOther"
  /\ UNCHANGED <<cmd, dictFile, wordsFile, dictFile0, otherEncoding, dictLines,
                 otherLines, result, count, writeCalls, writeEnc, exitCode,
                 redetected>>

\* const newWordsEncoding = await detectEncoding(newWordsPath)
DetectOther ==
  /\ pc = "detectOther"
  /\ otherEncoding' = detectEncoding(wordsFile)
  /\ pc' = "readDict"
  /\ UNCHANGED <<cmd, dictFile, wordsFile, dictFile0, dictEncoding, dictLines,
                 otherLines, result, count, writeCalls, writeEnc, exitCode,
                 redetected>>

\* the dictionary opened for writing (and so truncated) while it is read
ReadDictOpeningForWrite ==
  /\ pc = "readDict"
  /\ IF EncodingRecognized(dictEncoding) /\ dictFile.readable
       THEN /\ dictLines' = readFileLines(dictFile.bytes, dictEncoding)
            /\ pc' = IF cmd = "sort" THEN "compute" ELSE "readOther"
            /\ UNCHANGED exitCode
       ELSE /\ Fail
            /\ UNCHANGED dictLines
  /\ writeCalls' = writeCalls + 1
  /\ writeEnc' = dictEncoding
  /\ dictFile' = File(<<>>)
  /\ UNCHANGED <<cmd, wordsFile, dictFile0, dictEncoding, otherEncoding,
                 otherLines, result, count, redetected>>

\* const dictLines = await readFileLines(dictPath, dictEncoding)
ReadDict ==
  /\ pc = "readDict"
  /\ IF EncodingRecognized(dictEncoding) /\ dictFile.readable
       THEN /\ dictLines' = readFileLines(dictFile.bytes, dictEncoding)
            /\ pc' = IF cmd = "sort" THEN "compute" ELSE "readOther"
            /\ UNCHANGED exitCode
       ELSE /\ Fail
            /\ UNCHANGED dictLines
  /\ UNCHANGED <<cmd, dictFile, wordsFile, dictFile0, dictEncoding, otherEncoding,
                 otherLines, result, count, writeCalls, writeEnc, redetected>>

\* a secondary file of unknown encoding read as no lines at all
ReadOtherAsEmpty ==
  /\ pc = "readOther"
  /\ otherLines' = IF EncodingRecognized(otherEncoding) /\ wordsFile.readable
                     THEN readFileLines(wordsFile.bytes, otherEncoding)
                     ELSE <<>>
  /\ pc' = "compute"
  /\ UNCHANGED <<cmd, dictFile, wordsFile, dictFile0, dictEncoding, otherEncoding,
                 dictLines, result, count, writeCalls, writeEnc, exitCode,
                 redetected>>

\* const newLines = await readFileLines(newWordsPath, newWordsEncoding)
ReadOther ==
  /\ pc = "readOther"
  /\ IF EncodingRecognized(otherEncoding) /\ wordsFile.readable
       THEN /\ otherLines' = readFileLines(wordsFile.bytes, otherEncoding)
            /\ pc' = "compute"
            /\ UNCHANGED exitCode
       ELSE /\ Fail
            /\ UNCHANGED otherLines
  /\ UNCHANGED <<cmd, dictFile, wordsFile, dictFile0, dictEncoding, otherEncoding,
                 dictLines, result, count, writeCalls, writeEnc, redetected>>

\* the read stream of a file of recognized encoding fails (an I/O error after
\* the detection): the process ends with a failure, nothing is written
ReadError ==
  /\ pc \in {"readDict", "readOther"}
  /\ EncodingRecognized(IF pc = "readDict" THEN dictEncoding ELSE otherEncoding)
  /\ Fail
  /\ UNCHANGED <<cmd, dictFile, wordsFile, dictFile0, dictEncoding, otherEncoding,
                 dictLines, otherLines, result, count, writeCalls, writeEnc,
                 redetected>>

Computed(r) ==
  /\ result' = r.output
  /\ count' = r.count
  /\ pc' = "write"
  /\ UNCHANGED <<cmd, dictFile, wordsFile, dictFile0, dictEncoding, otherEncoding,
                 dictLines, otherLines, writeCalls, writeEnc, exitCode, redetected>>

\* addWords: wordSet, the loop, sortedWords
AddCompute ==
  /\ pc = "compute"
  /\ cmd = "add"
  /\ Computed(Merge(dictLines, otherLines))

\* deleteWords: deleteSet, result, deletedCount
DeleteCompute ==
  /\ pc = "compute"
  /\ cmd = "delete"
  /\ Computed(Subtract(dictLines, otherLines))

\* sortDictionary: uniqueWords, sortedWords, duplicatesRemoved
SortCompute ==
  /\ pc = "compute"
  /\ cmd = "sort"
  /\ Computed(Normalize(dictLines))

\* the encoding of the secondary file handed to writeFileLines
WriteEncodingOfSecondary == IF cmd = "sort" THEN dictEncoding ELSE otherEncoding

\* the encoding argument of the call of writeFileLines
WriteEncoding == dictEncoding

\* await writeFileLines(dictPath, ..., dictEncoding), the stream opened
WriteDict ==
  /\ pc = "write"
  /\ writeCalls' = writeCalls + 1
  /\ writeEnc' = WriteEncoding
  /\ dictFile' = File(writeFileLines(result, WriteEncoding))
  /\ pc' = "done"
  /\ exitCode' = 0
  /\ UNCHANGED <<cmd, wordsFile, dictFile0, dictEncoding, otherEncoding, dictLines,
                 otherLines, result, count, redetected>>

\* await writeFileLines(dictPath, ..., dictEncoding), createWriteStream failing
\* to open the file: the error is rethrown to the catch block of the command
WriteError ==
  /\ pc = "write"
  /\ writeCalls' = writeCalls + 1
  /\ writeEnc' = WriteEncoding
  /\ Fail
  /\ UNCHANGED <<cmd, dictFile, wordsFile, dictFile0, dictEncoding, otherEncoding,
                 dictLines, otherLines, result, count, redetected>>

\* detectEncoding run on the dictionary once the command has ended
Redetect ==
  /\ pc = "done"
  /\ redetected = None
  /\ redetected' = detectEncoding(dictFile)
  /\ UNCHANGED <<cmd, pc, dictFile, wordsFile, dictFile0, dictEncoding,
                 otherEncoding, dictLines, otherLines, result, count, writeCalls,
                 writeEnc, exitCode>>

Next ==
  \/ DetectDict
  \/ DetectOther
  \/ ReadDict
  \/ ReadOther
  \/ ReadError
  \/ AddCompute
  \/ DeleteCompute
  \/ SortCompute
  \/ WriteDict
  \/ WriteError
  \/ Redetect

Spec == Init /\ [][Next]_vars

(***************************************************************************)
(* detectEncoding run alone on a buffer (the main of detectEncoding.js).   *)
(***************************************************************************)
InitDetect ==
  /\ cmd = "detect"
  /\ pc = "detect"
  /\ dictFile \in Buffers
  /\ wordsFile = Missing
  /\ dictFile0 = dictFile
  /\ Blank

DetectMain ==
  /\ pc = "detect"
  /\ dictEncoding' = detectEncoding(dictFile)
  /\ pc' = "done"
  /\ exitCode' = 0
  /\ UNCHANGED <<cmd, dictFile, wordsFile, dictFile0, otherEncoding, dictLines,
                 otherLines, result, count, writeCalls, writeEnc, redetected>>

NextDetect == DetectMain

SpecDetect == InitDetect /\ [][NextDetect]_vars

(***************************************************************************)
(* The computations of the three commands on line collections of their own.*)
(***************************************************************************)
InitEngine ==
  /\ cmd \in Commands
  /\ pc = "compute"
  /\ dictFile = Missing
  /\ wordsFile = Missing
  /\ dictFile0 = dictFile
  /\ dictEncoding = UTF8
  /\ otherEncoding = IF cmd = "sort" THEN None ELSE UTF8
  /\ dictLines \in SeqsUpTo(Words, MaxPrimary)
  /\ otherLines \in (IF cmd = "sort" THEN {<<>>} ELSE SeqsUpTo(Words, MaxSecondary))
  /\ result = <<>>
  /\ count = 0
  /\ writeCalls = 0
  /\ writeEnc = None
  /\ exitCode = NoExit
  /\ redetected = None

NextEngine ==
  \/ AddCompute
  \/ DeleteCompute
  \/ SortCompute

SpecEngine == InitEngine /\ [][NextEngine]_vars

(***************************************************************************)
(* Properties.                                                             *)
(***************************************************************************)
KnownLabels == {UTF8, WIN1251}

NoRepeat(s) == \A i, j \in 1..Len(s) : s[i] = s[j] => i = j

\* the results of every reordering of the lines of s
Permutations(s) ==
  {[i \in 1..Len(s) |-> s[f[i]]] :
     f \in {g \in [1..Len(s) -> 1..Len(s)] : \A i, j \in 1..Len(s) : g[i] = g[j] => i = j}}

\* C1: once detectEncoding has returned 'unknown' for the dictionary, writeFileLines
\* is never called on the dictionary path and the dictionary keeps its content.
C1_UnknownDictionaryNeverWritten ==
  dictEncoding = UNKNOWN => (writeCalls = 0 /\ dictFile = dictFile0 /\ pc # "done")

C1_Witness ==
  /\ dictEncoding = UNKNOWN
  /\ pc = "failed"
  /\ dictFile0.readable
  /\ dictFile0.bytes # <<>>

\* C2: whenever writeFileLines has been called, its encoding argument is the label
\* detectEncoding returned for the dictionary at the start of the command, whatever
\* the encoding of the secondary file is.
C2_WriteEncodingIsDetected ==
  writeCalls > 0 => (writeEnc = dictEncoding /\ writeEnc = detectEncoding(dictFile0))

C2_Witness ==
  /\ writeCalls > 0
  /\ pc = "done"
  /\ otherEncoding \in KnownLabels
  /\ otherEncoding # dictEncoding

\* the state of a command whose detections, reads and computation are complete
AllStepsDone ==
  /\ dictEncoding = detectEncoding(dictFile0)
  /\ dictLines = readFileLines(dictFile0.bytes, dictEncoding)
  /\ cmd # "sort" => /\ otherEncoding = detectEncoding(wordsFile)
                     /\ otherLines = readFileLines(wordsFile.bytes, otherEncoding)
  /\ result = (CASE cmd = "add" -> Merge(dictLines, otherLines).output
                 [] cmd = "delete" -> Subtract(dictLines, otherLines).output
                 [] cmd = "sort" -> Normalize(dictLines).output)

\* C3: the dictionary is opened for writing only at the write step, once every
\* detection, every read and the computation of the result are complete; a command
\* that fails before the write step ends without having opened it; and it is opened
\* at most once per command.
C3_WriteOnlyAfterEverythingElse ==
  /\ [](writeCalls <= 1)
  /\ []((writeCalls = 0 /\ pc # "done") => dictFile = dictFile0)
  /\ [][(writeCalls' # writeCalls \/ dictFile' # dictFile)
          => (pc = "write" /\ writeCalls = 0 /\ AllStepsDone)]_vars
  /\ [][(pc # "write" /\ pc' = "failed") => (writeCalls' = 0 /\ exitCode' = 1)]_vars
  /\ [][pc = "failed" => pc' = "failed" /\ writeCalls' = writeCalls]_vars

C3_Witness ==
  /\ writeCalls = 1
  /\ pc = "done"
  /\ cmd = "add"
  /\ dictFile # dictFile0
  /\ Len(otherLines) > 0

\* C4: the output of the subtraction is the lines of the primary collection that
\* are no member of the rejection collection, at their positions' order and with
\* their repetitions; the removed count is the number of positions dropped.
C4_SubtractFiltersInOrder ==
  (cmd = "delete" /\ pc = "write") =>
    LET kept == {i \in 1..Len(dictLines) : ~Contains(otherLines, dictLines[i])}
        nth(k) == CHOOSE i \in kept : Cardinality({j \in kept : j <= i}) = k
    IN /\ Len(result) = Cardinality(kept)
       /\ \A k \in 1..Len(result) : result[k] = dictLines[nth(k)]
       /\ \A k \in 1..Len(result) : ~Contains(otherLines, result[k])
       /\ count = Len(dictLines) - Len(result)
       /\ count = Cardinality({i \in 1..Len(dictLines) : Contains(otherLines, dictLines[i])})

C4_Witness ==
  /\ cmd = "delete"
  /\ pc = "write"
  /\ count = 1
  /\ Len(result) = 2
  /\ result[1] = result[2]

C4_WitnessUnsorted ==
  /\ cmd = "delete"
  /\ pc = "write"
  /\ count = 1
  /\ Len(result) = 2
  /\ localeCompare(result[1], result[2]) > 0

\* C5 as stated: the lines of the output of the merge are the union of the lines
\* of both collections, none twice, and the output is the same sequence for every
\* reordering of the secondary collection.
C5_MergeSameForEveryOrder ==
  (cmd = "add" /\ pc = "write") =>
    /\ Range(result) = Range(dictLines) \cup Range(otherLines)
    /\ NoRepeat(result)
    /\ \A b \in Permutations(otherLines) : Merge(dictLines, b).output = result

\* C5 amended: the lines of the output of the merge are the union of the lines of
\* both collections, none twice, in comparator order; for every reordering of the
\* secondary collection the output has the same lines and differs at most in the
\* order of lines the comparator ranks equal.
C5_MergeSameUpToTies ==
  (cmd = "add" /\ pc = "write") =>
    /\ Range(result) = Range(dictLines) \cup Range(otherLines)
    /\ NoRepeat(result)
    /\ \A i, j \in 1..Len(result) : i < j => localeCompare(result[i], result[j]) <= 0
    /\ LET outputs == {Merge(dictLines, b).output : b \in Permutations(otherLines)}
           tieFree == \A v, w \in Range(result) : localeCompare(v, w) = 0 => v = w
       IN \A o \in outputs :
            /\ Range(o) = Range(result)
            /\ Len(o) = Len(result)
            /\ \A i \in 1..Len(o) : localeCompare(o[i], result[i]) = 0
            /\ tieFree => o = result

C5_Witness ==
  /\ cmd = "add"
  /\ pc = "write"
  /\ Len(dictLines) > 0
  /\ Len(otherLines) = 2
  /\ count = 2
  /\ localeCompare(otherLines[1], otherLines[2]) > 0

\* C6: the added count is the number of distinct lines of the secondary collection
\* that do not occur in the primary one, and the total is the number of distinct
\* lines of the primary collection plus the added count.
C6_MergeCounts ==
  (cmd = "add" /\ pc = "write") =>
    /\ count = Cardinality(Range(otherLines) \ Range(dictLines))
    /\ Len(result) = Cardinality(Range(dictLines)) + count

C6_Witness ==
  /\ cmd = "add"
  /\ pc = "write"
  /\ Len(otherLines) = 2
  /\ otherLines[1] = otherLines[2]
  /\ count = 1
  /\ Cardinality(Range(dictLines)) < Len(dictLines)

C6_WitnessPresent ==
  /\ cmd = "add"
  /\ pc = "write"
  /\ Len(otherLines) = 2
  /\ count = 0

\* C7: normalizing the output of a normalization returns it unchanged with 0
\* duplicates removed; the first pass removes len(L) minus the number of distinct
\* lines of L and returns the distinct lines of L in comparator order.
C7_NormalizeIdempotent ==
  (cmd = "sort" /\ pc = "write") =>
    /\ Normalize(result).output = result
    /\ Normalize(result).count = 0
    /\ count = Len(dictLines) - Cardinality(Range(dictLines))
    /\ Range(result) = Range(dictLines)
    /\ NoRepeat(result)
    /\ \A i, j \in 1..Len(result) : i < j => localeCompare(result[i], result[j]) <= 0

C7_Witness ==
  /\ cmd = "sort"
  /\ pc = "write"
  /\ count = 1
  /\ Len(result) = 2
  /\ result # NewSet(dictLines)

C7_WitnessTie ==
  /\ cmd = "sort"
  /\ pc = "write"
  /\ Len(result) >= 2
  /\ \E i \in 1..(Len(result) - 1) : localeCompare(result[i], result[i + 1]) = 0

\* a letter of the Russian alphabet: U+0410..U+044F, U+0401 and U+0451
IsRussianLetter(c) == c \in (1040..1103) \cup {1025, 1105}

HasRussianLetter(s) == \E i \in 1..Len(s) : IsRussianLetter(s[i])

\* C8 as stated: the label is UTF-8 when the UTF-8 decoding of the buffer has a
\* Cyrillic letter and no replacement character, else Windows-1251 when the
\* Windows-1251 decoding has a Cyrillic letter and no replacement character, else
\* 'unknown'; a file that cannot be read yields 'unknown'.
C8_FirstMatchClassification ==
  pc = "done" =>
    dictEncoding =
      (IF ~dictFile.readable THEN UNKNOWN
       ELSE IF /\ HasRussianLetter(Utf8ToString(dictFile.bytes))
               /\ ~HasReplacement(Utf8ToString(dictFile.bytes))
         THEN UTF8
       ELSE IF /\ HasRussianLetter(Win1251Decode(dictFile.bytes))
               /\ ~HasReplacement(Win1251Decode(dictFile.bytes))
         THEN WIN1251
       ELSE UNKNOWN)

\* C9 as stated: detectEncoding run on the dictionary a successful command has
\* written yields the label detected before the command.
C9_RedetectSameLabel ==
  redetected # None => redetected = dictEncoding

\* the written bytes pass the first test of detectEncoding
PassesUtf8Test(b) == HasCyrillic(Utf8ToString(b)) /\ ~HasReplacement(Utf8ToString(b))

\* C9 amended: after a successful command the label is detected again when the
\* written lines still have a letter of U+0410..U+044F (they always have after add
\* and sort) and, for a Windows-1251 dictionary, the written bytes do not pass the
\* UTF-8 test (then the label is UTF-8); when no written line has such a letter the
\* label differs from the one detected before.
C9_RedetectSameLabelWhileCyrillic ==
  redetected # None =>
    LET cyr == \E i \in 1..Len(result) : HasCyrillic(result[i])
    IN /\ cmd \in {"add", "sort"} => cyr
       /\ (dictEncoding = UTF8 /\ cyr) => redetected = UTF8
       /\ (dictEncoding = WIN1251 /\ cyr) =>
            redetected = (IF PassesUtf8Test(dictFile.bytes) THEN UTF8 ELSE WIN1251)
       /\ ~cyr => redetected # dictEncoding

C9_Witness ==
  /\ redetected = dictEncoding
  /\ cmd = "add"
  /\ otherEncoding # dictEncoding
  /\ count > 0

C9_WitnessEmptied ==
  /\ redetected = UNKNOWN
  /\ cmd = "delete"
  /\ result = <<>>

C9_WitnessRelabelled ==
  /\ redetected = UTF8
  /\ dictEncoding = WIN1251
  /\ cmd = "sort"

\* C10: with a dictionary of known encoding and a secondary file for which
\* detectEncoding returned 'unknown', add and delete never get past the read of the
\* secondary file: the dictionary is not written and the command can only end with
\* a failure exit.
C10_UnknownSecondaryAborts ==
  (dictEncoding \in KnownLabels /\ otherEncoding = UNKNOWN) =>
    /\ pc \in {"readDict", "readOther", "failed"}
    /\ writeCalls = 0
    /\ dictFile = dictFile0
    /\ otherLines = <<>>
    /\ pc = "failed" => exitCode = 1

C10_Witness ==
  /\ dictEncoding \in KnownLabels
  /\ otherEncoding = UNKNOWN
  /\ dictLines # <<>>
  /\ pc = "failed"
  /\ wordsFile.readable
  /\ wordsFile.bytes # <<>>

====
